---- MODULE Spec2Model ----
(***************************************************************************)
(* Model of pinger-rs (src/src/lib.rs): the legacy status query            *)
(* get_status and the PingRead / PingWrite codecs (VarInt, VarLong and the *)
(* length-prefixed UTF-16 string).                                         *)
(*                                                                         *)
(* Machine integers are bit vectors: an i32/u32 (i64/u64) is the set of    *)
(* the positions of its 1 bits, a subset of 0..31 (0..63).  Two integers   *)
(* of one width are equal exactly when their bit sets are equal, so the    *)
(* signed reading (two's complement) needs no arithmetic.  Bytes on a      *)
(* stream are naturals in 0..255, 16-bit code units naturals in 0..65535,  *)
(* and a String is the sequence of its Unicode scalar values.              *)
(***************************************************************************)
EXTENDS Integers, Sequences, FiniteSets, TLC

VARIABLES
    pc,         \* get_status: the statement the call is at
    steps,      \* get_status: the steps attempted so far, in order
    timeout,    \* read timeout set on the stream in ms (0: none set)
    wire,       \* bytes the call has written to the connection
    inp,        \* bytes the server sent that are not read yet
    recv,       \* bytes the call consumed from the connection, in order
    packet_id,  \* the response identifier read (-1: none read)
    response,   \* the decoded payload text
    outcome,    \* what get_status ends with
    cpc,        \* codec harness: "idle", "written" or "decoded"
    cfn,        \* codec harness: codec in use ("i32", "i64", "utf16")
    cfrom,      \* codec harness: "enc" when cbuf was produced by the writer
    cval,       \* codec harness: the integer handed to the writer
    sval,       \* codec harness: the text handed to the writer
    cbuf,       \* codec harness: the byte stream
    cres        \* codec harness: what the reader returned

vars == <<pc, steps, timeout, wire, inp, recv, packet_id, response, outcome,
          cpc, cfn, cfrom, cval, sval, cbuf, cres>>

qvars == <<pc, steps, timeout, wire, inp, recv, packet_id, response, outcome>>
cvars == <<cpc, cfn, cfrom, cval, sval, cbuf, cres>>

-----------------------------------------------------------------------------
(* Bounds of the model *)

\* longest run of continuation bytes in a raw varint stream
MaxCont == 11
\* number of bytes that follow the run of continuation bytes
MaxTail == 2
\* longest text handed to write_utf16_string
MaxStrLen == 3
\* largest number of fields in a generated status payload
MaxFields == 7

SeqsUpTo(S, n) == UNION {[1..k -> S] : k \in 0..n}

-----------------------------------------------------------------------------
(* Bit-vector arithmetic *)

RECURSIVE Pow2(_)
Pow2(n) == IF n = 0 THEN 1 ELSE 2 * Pow2(n - 1)

\* u8 -> bits (the `as i32` / `as i64` widening of a u8 is zero extension)
ByteBits(b) == {i \in 0..7 : (b \div Pow2(i)) % 2 = 1}

RECURSIVE BitsNat(_)
BitsNat(s) ==
    IF s = {} THEN 0
    ELSE LET i == CHOOSE j \in s : TRUE IN Pow2(i) + BitsNat(s \ {i})

\* `x as u8`: keep the low 8 bits
AsU8(x) == BitsNat(x \cap 0..7)

\* `x << s` on a w-bit integer: bits shifted past the width are dropped
Shl(x, s, w) == {i + s : i \in x} \cap 0..(w - 1)

\* `x >> s` on an unsigned integer
Shr(x, s) == {i - s : i \in {j \in x : j >= s}}

IoOk(v, n) == [kind |-> "Ok", val |-> v, used |-> n]
IoErr(k, m, n) == [kind |-> "Err", err |-> k, msg |-> m, used |-> n]

-----------------------------------------------------------------------------
(* PingRead::read_var_i32 / read_var_i64 *)

\* the shift table with a wrong last entry, and with one entry too many
Shifts32Off == <<0, 7, 14, 21, 27>>
Shifts32Long == <<0, 7, 14, 21, 28, 35>>
Shifts32 == <<0, 7, 14, 21, 28>>

Shifts64 == <<0, 7, 14, 21, 28, 35, 42, 49, 56, 63>>

\* s: the stream, k: index of the next byte, x: the accumulator
RECURSIVE read_var_i32_loop(_, _, _)
read_var_i32_loop(s, k, x) ==
    IF k > Len(Shifts32)
    THEN IoErr("InvalidInput", "VarInt too big", k - 1)
    ELSE IF k > Len(s)
    THEN IoErr("UnexpectedEof", "failed to fill whole buffer", Len(s))
    ELSE LET b  == ByteBits(s[k])
             x2 == x \cup Shl(b \cap 0..6, Shifts32[k], 32)
         IN  IF 7 \notin b THEN IoOk(x2, k)
             ELSE read_var_i32_loop(s, k + 1, x2)


read_var_i32(s) == read_var_i32_loop(s, 1, {})

RECURSIVE read_var_i64_loop(_, _, _)
read_var_i64_loop(s, k, x) ==
    IF k > Len(Shifts64)
    THEN IoErr("InvalidInput", "VarLong too big", k - 1)
    ELSE IF k > Len(s)
    THEN IoErr("UnexpectedEof", "failed to fill whole buffer", Len(s))
    ELSE LET b  == ByteBits(s[k])
             x2 == x \cup Shl(b \cap 0..6, Shifts64[k], 64)
         IN  IF 7 \notin b THEN IoOk(x2, k)
             ELSE read_var_i64_loop(s, k + 1, x2)

read_var_i64(s) == read_var_i64_loop(s, 1, {})

-----------------------------------------------------------------------------
(* PingWrite::write_var_i32 / write_var_i64 *)

\* temp: `value as u32`, result: the bytes collected so far
RECURSIVE write_var_i32_loop(_, _)
write_var_i32_loop(temp, result) ==
    IF temp \cap 7..31 = {}
    THEN Append(result, AsU8(temp))
    ELSE write_var_i32_loop(Shr(temp, 7),
                            Append(result, AsU8((temp \cap 0..6) \cup {7})))

write_var_i32(value) == write_var_i32_loop(value, <<>>)

RECURSIVE write_var_i64_loop(_, _)
write_var_i64_loop(temp, result) ==
    IF temp \cap 7..63 = {}
    THEN Append(result, AsU8(temp))
    ELSE write_var_i64_loop(Shr(temp, 7),
                            Append(result, AsU8((temp \cap 0..6) \cup {7})))

write_var_i64(value) == write_var_i64_loop(value, <<>>)

-----------------------------------------------------------------------------
(* PingRead::read_utf16_string / PingWrite::write_utf16_string *)

\* byteorder write_u16::<BE> / read_u16::<BE>
WriteU16BE(u) == <<u \div 256, u % 256>>

ReadU16BE(s, k) == s[k] * 256 + s[k + 1]

IsHighSurrogate(u) == u >= 55296 /\ u <= 56319
IsLowSurrogate(u) == u >= 56320 /\ u <= 57343

\* str::encode_utf16: one unit per BMP scalar, a surrogate pair otherwise
RECURSIVE encode_utf16(_)
encode_utf16(str) ==
    IF str = <<>> THEN <<>>
    ELSE LET c == Head(str)
         IN  IF c < 65536
             THEN <<c>> \o encode_utf16(Tail(str))
             ELSE <<55296 + ((c - 65536) \div 1024),
                    56320 + ((c - 65536) % 1024)>> \o encode_utf16(Tail(str))

\* String::from_utf16_lossy: U+FFFD for every unpaired surrogate
RECURSIVE from_utf16_lossy(_)
from_utf16_lossy(chars) ==
    IF chars = <<>> THEN <<>>
    ELSE LET u == Head(chars)
         IN  IF ~IsHighSurrogate(u) /\ ~IsLowSurrogate(u)
             THEN <<u>> \o from_utf16_lossy(Tail(chars))
             ELSE IF IsHighSurrogate(u) /\ Len(chars) >= 2
                     /\ IsLowSurrogate(chars[2])
             THEN <<65536 + (u - 55296) * 1024 + (chars[2] - 56320)>>
                  \o from_utf16_lossy(Tail(Tail(chars)))
             ELSE <<65533>> \o from_utf16_lossy(Tail(chars))

RECURSIVE WriteUnits(_)
WriteUnits(encoded) ==
    IF encoded = <<>> THEN <<>>
    ELSE WriteU16BE(Head(encoded)) \o WriteUnits(Tail(encoded))

\* the length prefix counted in bytes instead of code units
write_utf16_string_byte_len(value) ==
    LET encoded == encode_utf16(value)
    IN  WriteU16BE((2 * Len(encoded)) % 65536) \o WriteUnits(encoded)

\* `encoded.len() as u16` keeps the low 16 bits of the length
write_utf16_string(value) ==
    LET encoded == encode_utf16(value)
    IN  WriteU16BE(Len(encoded) % 65536) \o WriteUnits(encoded)

read_utf16_string(s) ==
    IF Len(s) < 2
    THEN IoErr("UnexpectedEof", "failed to fill whole buffer", Len(s))
    ELSE LET len == ReadU16BE(s, 1)
         IN  IF Len(s) < 2 + 2 * len
             THEN IoErr("UnexpectedEof", "failed to fill whole buffer", Len(s))
             ELSE IoOk(from_utf16_lossy([i \in 1..len |-> ReadU16BE(s, 1 + 2 * i)]),
                       2 + 2 * len)

-----------------------------------------------------------------------------
(* Text operations get_status uses *)

NUL == 0
SECTION == 167

\* str::starts_with("\u{00a7}1")
starts_with_marker(str) == Len(str) >= 2 /\ str[1] = SECTION /\ str[2] = 49

\* str::split(char): n separators give n + 1 fields, empty ones included
RECURSIVE split_loop(_, _, _, _, _)
split_loop(str, sep, i, cur, acc) ==
    IF i > Len(str) THEN Append(acc, cur)
    ELSE IF str[i] = sep
    THEN split_loop(str, sep, i + 1, <<>>, Append(acc, cur))
    ELSE split_loop(str, sep, i + 1, Append(cur, str[i]), acc)

split(str, sep) == split_loop(str, sep, 1, <<>>, <<>>)

IntOk(v) == [kind |-> "Ok", val |-> v]
IntErr(e) == [kind |-> "Err", err |-> e]

\* the digit loop of str::parse for an integer type with range lo..hi:
\* checked multiply by 10, then checked add (subtract when negative)
RECURSIVE parse_digits(_, _, _, _, _, _)
parse_digits(d, i, acc, positive, lo, hi) ==
    IF i > Len(d) THEN IntOk(acc)
    ELSE IF d[i] < 48 \/ d[i] > 57 THEN IntErr("InvalidDigit")
    ELSE LET x == d[i] - 48
         IN  IF positive
             THEN IF acc * 10 > hi \/ acc * 10 + x > hi
                  THEN IntErr("PosOverflow")
                  ELSE parse_digits(d, i + 1, acc * 10 + x, positive, lo, hi)
             ELSE IF acc * 10 < lo \/ acc * 10 - x < lo
                  THEN IntErr("NegOverflow")
                  ELSE parse_digits(d, i + 1, acc * 10 - x, positive, lo, hi)

\* str::parse::<T>(): optional '+' (and '-' for a signed T), then digits
parse_int(src, signed, lo, hi) ==
    IF src = <<>> THEN IntErr("Empty")
    ELSE IF Len(src) = 1 /\ src[1] \in {43, 45} THEN IntErr("InvalidDigit")
    ELSE IF src[1] = 43 THEN parse_digits(Tail(src), 1, 0, TRUE, lo, hi)
    ELSE IF src[1] = 45 /\ signed THEN parse_digits(Tail(src), 1, 0, FALSE, lo, hi)
    ELSE parse_digits(src, 1, 0, TRUE, lo, hi)

parse_i16(src) == parse_int(src, TRUE, -32768, 32767)
parse_u16(src) == parse_int(src, FALSE, 0, 65535)

-----------------------------------------------------------------------------
(* get_status: results *)

\* status[i] of the source (0-based) on a TLA+ sequence
HasField(status, i) == Len(status) > i
Field(status, i) == status[i + 1]

Some(v) == <<v>>
None == <<>>

Ok(st) == [kind |-> "Ok", status |-> st]
Io(e) == [kind |-> "Err", err |-> "Io", detail |-> e]
ParseInt(e) == [kind |-> "Err", err |-> "ParseInt", detail |-> e]
\* the error carrying the identifier that was expected, not the one read
UnexpectedPacketIdExpected(id) ==
    [kind |-> "Err", err |-> "UnexpectedPacketId", detail |-> 255]
UnexpectedPacketId(id) == [kind |-> "Err", err |-> "UnexpectedPacketId", detail |-> id]
\* an out-of-range `status[i]` panics: the call unwinds and returns nothing
Panic == [kind |-> "Panic", msg |-> "index out of bounds"]

\* the modern-in-legacy branch; the fields of the Status expression are
\* evaluated in the order they are written.  parse_modern_swapped is the
\* branch with server and motd taken from each other's field.
parse_modern_swapped(status) ==
    IF ~HasField(status, 1) THEN Panic
    ELSE LET protocol == parse_i16(Field(status, 1))
    IN IF protocol.kind = "Err" THEN ParseInt(protocol.err)
    ELSE IF ~HasField(status, 2) THEN Panic
    ELSE IF ~HasField(status, 3) THEN Panic
    ELSE IF ~HasField(status, 4) THEN Panic
    ELSE LET current == parse_u16(Field(status, 4))
    IN IF current.kind = "Err" THEN ParseInt(current.err)
    ELSE IF ~HasField(status, 5) THEN Panic
    ELSE LET max == parse_u16(Field(status, 5))
    IN IF max.kind = "Err" THEN ParseInt(max.err)
    ELSE Ok([dirty |-> TRUE,
             version |-> Some([protocol |-> protocol.val,
                               server |-> Field(status, 3)]),
             motd |-> Field(status, 2),
             online |-> <<current.val, max.val>>])
parse_modern(status) ==
    IF ~HasField(status, 1) THEN Panic
    ELSE LET protocol == parse_i16(Field(status, 1))
    IN IF protocol.kind = "Err" THEN ParseInt(protocol.err)
    ELSE IF ~HasField(status, 2) THEN Panic
    ELSE IF ~HasField(status, 3) THEN Panic
    ELSE IF ~HasField(status, 4) THEN Panic
    ELSE LET current == parse_u16(Field(status, 4))
    IN IF current.kind = "Err" THEN ParseInt(current.err)
    ELSE IF ~HasField(status, 5) THEN Panic
    ELSE LET max == parse_u16(Field(status, 5))
    IN IF max.kind = "Err" THEN ParseInt(max.err)
    ELSE Ok([dirty |-> TRUE,
             version |-> Some([protocol |-> protocol.val,
                               server |-> Field(status, 2)]),
             motd |-> Field(status, 3),
             online |-> <<current.val, max.val>>])

\* the legacy branch.  parse_legacy_swapped is the branch with the two
\* player counts exchanged.
parse_legacy_swapped(status) ==
    IF ~HasField(status, 0) THEN Panic
    ELSE IF ~HasField(status, 1) THEN Panic
    ELSE LET current == parse_u16(Field(status, 1))
    IN IF current.kind = "Err" THEN ParseInt(current.err)
    ELSE IF ~HasField(status, 2) THEN Panic
    ELSE LET max == parse_u16(Field(status, 2))
    IN IF max.kind = "Err" THEN ParseInt(max.err)
    ELSE Ok([dirty |-> TRUE,
             version |-> None,
             motd |-> Field(status, 0),
             online |-> <<max.val, current.val>>])
parse_legacy(status) ==
    IF ~HasField(status, 0) THEN Panic
    ELSE IF ~HasField(status, 1) THEN Panic
    ELSE LET current == parse_u16(Field(status, 1))
    IN IF current.kind = "Err" THEN ParseInt(current.err)
    ELSE IF ~HasField(status, 2) THEN Panic
    ELSE LET max == parse_u16(Field(status, 2))
    IN IF max.kind = "Err" THEN ParseInt(max.err)
    ELSE Ok([dirty |-> TRUE,
             version |-> None,
             motd |-> Field(status, 0),
             online |-> <<current.val, max.val>>])

-----------------------------------------------------------------------------
(* Codec harness: a caller that encodes a value into an in-memory stream,  *)
(* or is handed a stream by a peer, and then decodes it.                   *)

\* i32 / i64 inputs: every combination of the bits at the chunk borders,
\* which contains 0, the minimum ({31}, {63}); plus -1 and the maximum
KeyBits32 == {0, 6, 7, 13, 14, 27, 28, 31}
KeyBits64 == {0, 6, 7, 34, 35, 55, 56, 62, 63}
Samples32 == (SUBSET KeyBits32) \cup {0..31, 0..30}
Samples64 == (SUBSET KeyBits64) \cup {0..63, 0..62}

\* streams a peer may send: a run of continuation bytes, then a few bytes
ContBytes == {128, 255}
TailBytes == {0, 1, 15, 16, 127, 128}
RawStreams ==
    {[i \in 1..n |-> IF i = 1 THEN c1 ELSE c2] \o t :
        c1 \in ContBytes, c2 \in ContBytes, n \in 0..MaxCont,
        t \in SeqsUpTo(TailBytes, MaxTail)}

\* texts: NUL, ASCII, Latin-1, the BMP borders around the surrogate range,
\* U+FFFD, U+FFFF and one scalar above the BMP
CharSamples == {0, 49, 167, 55295, 57344, 65533, 65535, 128512}
UnitSamples == {65, 55296, 56320, 55357}
RawUnitStreams ==
    {WriteU16BE(n) \o WriteUnits(us) :
        n \in 0..MaxStrLen, us \in SeqsUpTo(UnitSamples, 2)}

NoResult == [kind |-> "None"]

CodecIdle ==
    /\ cpc = "idle" /\ cfn = "none" /\ cfrom = "none"
    /\ cval = {} /\ sval = <<>> /\ cbuf = <<>> /\ cres = NoResult

QueryIdle ==
    /\ pc = "idle" /\ steps = <<>> /\ timeout = 0 /\ wire = <<>>
    /\ inp = <<>> /\ recv = <<>> /\ packet_id = -1 /\ response = <<>>
    /\ outcome = NoResult

WriteVarI32 ==
    /\ cpc = "idle"
    /\ \E v \in Samples32 : cval' = v /\ cbuf' = write_var_i32(v)
    /\ cpc' = "written" /\ cfn' = "i32" /\ cfrom' = "enc"
    /\ UNCHANGED <<sval, cres, qvars>>

WriteVarI64 ==
    /\ cpc = "idle"
    /\ \E v \in Samples64 : cval' = v /\ cbuf' = write_var_i64(v)
    /\ cpc' = "written" /\ cfn' = "i64" /\ cfrom' = "enc"
    /\ UNCHANGED <<sval, cres, qvars>>

FeedVarI32 ==
    /\ cpc = "idle"
    /\ cbuf' \in RawStreams
    /\ cpc' = "written" /\ cfn' = "i32" /\ cfrom' = "raw"
    /\ UNCHANGED <<cval, sval, cres, qvars>>

FeedVarI64 ==
    /\ cpc = "idle"
    /\ cbuf' \in RawStreams
    /\ cpc' = "written" /\ cfn' = "i64" /\ cfrom' = "raw"
    /\ UNCHANGED <<cval, sval, cres, qvars>>

ReadVarI32 ==
    /\ cpc = "written" /\ cfn = "i32"
    /\ cres' = read_var_i32(cbuf)
    /\ cpc' = "decoded"
    /\ UNCHANGED <<cfn, cfrom, cval, sval, cbuf, qvars>>

ReadVarI64 ==
    /\ cpc = "written" /\ cfn = "i64"
    /\ cres' = read_var_i64(cbuf)
    /\ cpc' = "decoded"
    /\ UNCHANGED <<cfn, cfrom, cval, sval, cbuf, qvars>>

WriteUtf16String ==
    /\ cpc = "idle"
    /\ \E v \in SeqsUpTo(CharSamples, MaxStrLen) :
          sval' = v /\ cbuf' = write_utf16_string(v)
    /\ cpc' = "written" /\ cfn' = "utf16" /\ cfrom' = "enc"
    /\ UNCHANGED <<cval, cres, qvars>>

FeedUtf16String ==
    /\ cpc = "idle"
    /\ cbuf' \in RawUnitStreams
    /\ cpc' = "written" /\ cfn' = "utf16" /\ cfrom' = "raw"
    /\ UNCHANGED <<cval, sval, cres, qvars>>

ReadUtf16String ==
    /\ cpc = "written" /\ cfn = "utf16"
    /\ cres' = read_utf16_string(cbuf)
    /\ cpc' = "decoded"
    /\ UNCHANGED <<cfn, cfrom, cval, sval, cbuf, qvars>>

InitCodec == CodecIdle /\ QueryIdle

NextVarint ==
    \/ WriteVarI32
    \/ WriteVarI64
    \/ FeedVarI32
    \/ FeedVarI64
    \/ ReadVarI32
    \/ ReadVarI64

SpecVarint == InitCodec /\ [][NextVarint]_vars

NextString ==
    \/ WriteUtf16String
    \/ FeedUtf16String
    \/ ReadUtf16String

SpecString == InitCodec /\ [][NextString]_vars

-----------------------------------------------------------------------------
(* Properties of the codecs *)

\* C1: decoding the bytes that write_var_i32 (write_var_i64) produced for v
\* returns exactly v, and consumes exactly those bytes.
C1_VarintRoundTrip ==
    (cpc = "decoded" /\ cfrom = "enc" /\ cfn \in {"i32", "i64"}) =>
        /\ cres.kind = "Ok"
        /\ cres.val = cval
        /\ cres.used = Len(cbuf)

\* -1 as an i64 went through write_var_i64 (10 bytes) and read_var_i64
C1_Witness ==
    /\ cpc = "decoded" /\ cfrom = "enc" /\ cfn = "i64"
    /\ cval = 0..63 /\ Len(cbuf) = 10 /\ cres.kind = "Ok"

AllCont(s, n) == Len(s) >= n /\ \A i \in 1..n : s[i] >= 128

\* C2: when the first 5 (10) bytes all carry the continuation bit,
\* read_var_i32 (read_var_i64) returns the "too big" error, never a value,
\* and has consumed no more than 5 (10) bytes.
C2_VarintLengthOverflow ==
    /\ (cpc = "decoded" /\ cfn = "i32" /\ AllCont(cbuf, 5)) =>
          (cres.kind = "Err" /\ cres.err = "InvalidInput" /\ cres.used <= 5)
    /\ (cpc = "decoded" /\ cfn = "i64" /\ AllCont(cbuf, 10)) =>
          (cres.kind = "Err" /\ cres.err = "InvalidInput" /\ cres.used <= 10)

\* read_var_i32 was given more than 5 bytes, the first 5 with the bit set
C2_Witness ==
    /\ cpc = "decoded" /\ cfn = "i32" /\ cfrom = "raw"
    /\ AllCont(cbuf, 5) /\ Len(cbuf) > 5 /\ cres.kind = "Err"

\* index of the byte that ends the varint (0: the stream has none)
TermIndex(s) ==
    IF \E k \in 1..Len(s) : s[k] < 128
    THEN CHOOSE k \in 1..Len(s) : s[k] < 128 /\ \A j \in 1..(k - 1) : s[j] >= 128
    ELSE 0

\* bits of the unbounded value the 7-bit chunks of the varint spell
ChunkBits(s) ==
    {7 * (kj[1] - 1) + kj[2] :
        kj \in {c \in (1..TermIndex(s)) \X (0..6) : c[2] \in ByteBits(s[c[1]])}}

Overflows(s, w) == TermIndex(s) > 0 /\ \E i \in ChunkBits(s) : i >= w

\* C3: a stream whose chunks spell a value that does not fit in 32 (64)
\* bits makes read_var_i32 (read_var_i64) fail.
C3_VarintMagnitudeOverflow ==
    /\ (cpc = "decoded" /\ cfn = "i32" /\ Overflows(cbuf, 32)) => cres.kind = "Err"
    /\ (cpc = "decoded" /\ cfn = "i64" /\ Overflows(cbuf, 64)) => cres.kind = "Err"

\* C4: decoding the bytes write_utf16_string produced for a text without
\* surrogate pairs returns exactly the text, and the length prefix is the
\* number of code units written.
C4_Utf16RoundTrip ==
    (cpc = "decoded" /\ cfn = "utf16" /\ cfrom = "enc"
        /\ \A i \in 1..Len(sval) : sval[i] < 65536) =>
        /\ cres.kind = "Ok"
        /\ cres.val = sval
        /\ ReadU16BE(cbuf, 1) = Len(sval)
        /\ Len(cbuf) = 2 + 2 * ReadU16BE(cbuf, 1)

\* a text of MaxStrLen BMP characters, among them NUL and U+FFFF
C4_Witness ==
    /\ cpc = "decoded" /\ cfn = "utf16" /\ cfrom = "enc"
    /\ Len(sval) >= 2 /\ \A i \in 1..Len(sval) : sval[i] < 65536
    /\ \E i \in 1..Len(sval) : sval[i] = 65535
    /\ \E i \in 1..Len(sval) : sval[i] = 0
    /\ cres.kind = "Ok"

-----------------------------------------------------------------------------
(* get_status: what a server may answer *)

RECURSIVE Join(_, _)
Join(fields, sep) ==
    IF Len(fields) = 1 THEN fields[1]
    ELSE fields[1] \o <<sep>> \o Join(Tail(fields), sep)

\* "§1", "7", "x"
GenericFields == {<<SECTION, 49>>, <<55>>, <<120>>}

\* "", "+", "-", "+7", "-7", "007", "7x", " 7",
\* "32767", "32768", "-32768", "-32769", "65535", "65536"
NumSamples ==
    {<<>>, <<43>>, <<45>>, <<43, 55>>, <<45, 55>>, <<48, 48, 55>>,
     <<55, 120>>, <<32, 55>>,
     <<51, 50, 55, 54, 55>>, <<51, 50, 55, 54, 56>>,
     <<45, 51, 50, 55, 54, 56>>, <<45, 51, 50, 55, 54, 57>>,
     <<54, 53, 53, 51, 53>>, <<54, 53, 53, 51, 54>>}

\* "1.8" and "A b"
ServerText == <<49, 46, 56>>
MotdText == <<65, 32, 98>>

\* every text of up to MaxFields generic fields joined by NUL or by the
\* section sign; the two grammars with every numeric sample in each
\* numeric field, after the marker "§1" or "§1x"; the empty text
Payloads ==
    {Join(fs, sep) :
        fs \in UNION {[1..n -> GenericFields] : n \in 1..MaxFields},
        sep \in {NUL, SECTION}}
    \cup {Join(<<m, a, ServerText, MotdText, b, c>>, NUL) :
            m \in {<<SECTION, 49>>, <<SECTION, 49, 120>>},
            a \in NumSamples, b \in NumSamples, c \in NumSamples}
    \cup {Join(<<MotdText, b, c>>, SECTION) : b \in NumSamples, c \in NumSamples}
    \cup {<<>>}

\* a few bodies to follow any identifier: nothing, stray bytes, whole and
\* cut-off strings, a string with an unpaired surrogate and trailing bytes
SmallBodies ==
    LET modern == write_utf16_string(
                      Join(<<<<SECTION, 49>>, <<55>>, ServerText, MotdText,
                             <<55>>, <<55>>>>, NUL))
        legacy == write_utf16_string(Join(<<MotdText, <<55>>, <<55>>>>, SECTION))
    IN  {<<>>, <<0>>, <<0, 1, 0>>, <<255, 255>>,
         modern, legacy, legacy \o <<254, 1>>,
         WriteU16BE(6) \o WriteUnits(<<65, 55296, SECTION, 55, SECTION, 55>>)}
        \cup {SubSeq(legacy, 1, k) : k \in 0..Len(legacy)}

Responses ==
    {<<255>> \o write_utf16_string(p) : p \in Payloads}
    \cup {<<id>> \o b : id \in 0..255, b \in SmallBodies}
    \cup {<<>>}

-----------------------------------------------------------------------------
(* get_status, one action per statement and way it can end *)

\* the one-byte probe of older clients
ProbeShort == <<254>>
Probe == <<254, 1>>
ReadTimeoutMs == 500

\* line 10: TcpStream::connect_timeout succeeds
ConnectOk ==
    /\ pc = "connect"
    /\ steps' = Append(steps, "connect")
    /\ pc' = "set_read_timeout"
    /\ UNCHANGED <<timeout, wire, inp, recv, packet_id, response, outcome, cvars>>

\* line 10: the connect fails and `?` returns
ConnectFail ==
    /\ pc = "connect"
    /\ steps' = Append(steps, "connect")
    /\ outcome' \in {Io(e) : e \in {"TimedOut", "ConnectionRefused"}}
    /\ pc' = "done"
    /\ UNCHANGED <<timeout, wire, inp, recv, packet_id, response, cvars>>

\* line 11
SetReadTimeoutOk ==
    /\ pc = "set_read_timeout"
    /\ steps' = Append(steps, "set_read_timeout")
    /\ timeout' = ReadTimeoutMs
    /\ pc' = "write"
    /\ UNCHANGED <<wire, inp, recv, packet_id, response, outcome, cvars>>

SetReadTimeoutFail ==
    /\ pc = "set_read_timeout"
    /\ steps' = Append(steps, "set_read_timeout")
    /\ outcome' = Io("Other")
    /\ pc' = "done"
    /\ UNCHANGED <<timeout, wire, inp, recv, packet_id, response, cvars>>

\* line 12: write_all sends the probe; the server's answer is on its way
WriteProbeOk ==
    /\ pc = "write"
    /\ steps' = Append(steps, "write")
    /\ wire' = wire \o Probe
    /\ inp' \in Responses
    /\ pc' = "read_id"
    /\ UNCHANGED <<timeout, recv, packet_id, response, outcome, cvars>>

\* line 12: write_all fails after sending only part of the probe
WriteProbeFail ==
    /\ pc = "write"
    /\ steps' = Append(steps, "write")
    /\ \E k \in 0..(Len(Probe) - 1) : wire' = wire \o SubSeq(Probe, 1, k)
    /\ outcome' = Io("BrokenPipe")
    /\ pc' = "done"
    /\ UNCHANGED <<timeout, inp, recv, packet_id, response, cvars>>

\* lines 14-16: read_u8, the identifier is 0xFF
ReadIdStatus ==
    /\ pc = "read_id"
    /\ inp # <<>> /\ Head(inp) = 255
    /\ steps' = Append(steps, "read_id")
    /\ packet_id' = Head(inp)
    /\ inp' = Tail(inp)
    /\ recv' = Append(recv, Head(inp))
    /\ pc' = "read_string"
    /\ UNCHANGED <<timeout, wire, response, outcome, cvars>>

\* lines 14-16, 44-45: read_u8, any other identifier
ReadIdOther ==
    /\ pc = "read_id"
    /\ inp # <<>> /\ Head(inp) # 255
    /\ steps' = Append(steps, "read_id")
    /\ packet_id' = Head(inp)
    /\ inp' = Tail(inp)
    /\ recv' = Append(recv, Head(inp))
    /\ outcome' = UnexpectedPacketId(Head(inp))
    /\ pc' = "done"
    /\ UNCHANGED <<timeout, wire, response, cvars>>

\* line 14: no byte within the read timeout, or the stream is closed
ReadIdFail ==
    /\ pc = "read_id"
    /\ steps' = Append(steps, "read_id")
    /\ outcome' = IF inp = <<>> THEN Io("UnexpectedEof") ELSE Io("TimedOut")
    /\ pc' = "done"
    /\ UNCHANGED <<timeout, wire, inp, recv, packet_id, response, cvars>>

\* line 17: read_utf16_string returns the text
ReadStringOk ==
    /\ pc = "read_string"
    /\ LET r == read_utf16_string(inp)
       IN  /\ r.kind = "Ok"
           /\ response' = r.val
           /\ inp' = SubSeq(inp, r.used + 1, Len(inp))
           /\ recv' = recv \o SubSeq(inp, 1, r.used)
    /\ steps' = Append(steps, "read_string")
    /\ pc' = "parse"
    /\ UNCHANGED <<timeout, wire, packet_id, outcome, cvars>>

\* line 17: the stream ends inside the string, or a read times out after
\* k more bytes
ReadStringFail ==
    /\ pc = "read_string"
    /\ LET r == read_utf16_string(inp)
       IN  \/ /\ r.kind = "Err"
              /\ outcome' = Io(r.err)
              /\ inp' = SubSeq(inp, r.used + 1, Len(inp))
              /\ recv' = recv \o SubSeq(inp, 1, r.used)
           \/ \E k \in {j \in 0..1 : j <= Len(inp)} :
              /\ outcome' = Io("TimedOut")
              /\ inp' = SubSeq(inp, k + 1, Len(inp))
              /\ recv' = recv \o SubSeq(inp, 1, k)
    /\ steps' = Append(steps, "read_string")
    /\ pc' = "done"
    /\ UNCHANGED <<timeout, wire, packet_id, response, cvars>>

\* lines 18-31
ParseModern ==
    /\ pc = "parse"
    /\ starts_with_marker(response)
    /\ steps' = Append(steps, "parse")
    /\ outcome' = parse_modern(split(response, NUL))
    /\ pc' = "done"
    /\ UNCHANGED <<timeout, wire, inp, recv, packet_id, response, cvars>>

\* lines 32-43
ParseLegacy ==
    /\ pc = "parse"
    /\ ~starts_with_marker(response)
    /\ steps' = Append(steps, "parse")
    /\ outcome' = parse_legacy(split(response, SECTION))
    /\ pc' = "done"
    /\ UNCHANGED <<timeout, wire, inp, recv, packet_id, response, cvars>>

Init ==
    /\ pc = "connect" /\ steps = <<>> /\ timeout = 0 /\ wire = <<>>
    /\ inp = <<>> /\ recv = <<>> /\ packet_id = -1 /\ response = <<>>
    /\ outcome = NoResult
    /\ CodecIdle

Next ==
    \/ ConnectOk
    \/ ConnectFail
    \/ SetReadTimeoutOk
    \/ SetReadTimeoutFail
    \/ WriteProbeOk
    \/ WriteProbeFail
    \/ ReadIdStatus
    \/ ReadIdOther
    \/ ReadIdFail
    \/ ReadStringOk
    \/ ReadStringFail
    \/ ParseModern
    \/ ParseLegacy

Spec == Init /\ [][Next]_vars

-----------------------------------------------------------------------------
(* Properties of get_status *)

Attempted(step) == \E i \in 1..Len(steps) : steps[i] = step

\* C5: once an identifier other than 0xFF has been read, the call is over
\* with UnexpectedPacketId carrying that byte, whatever the server sent
\* after it; the identifier is the only byte consumed and no text was read.
C5_UnexpectedPacketId ==
    (recv # <<>> /\ recv[1] # 255) =>
        /\ pc = "done"
        /\ outcome = [kind |-> "Err", err |-> "UnexpectedPacketId",
                      detail |-> recv[1]]
        /\ recv = <<recv[1]>>
        /\ ~Attempted("read_string") /\ ~Attempted("parse")

\* identifier 0x02 was read while a whole status string was still waiting
C5_Witness ==
    /\ pc = "done" /\ recv = <<2>> /\ Len(inp) > 2
    /\ outcome.kind = "Err" /\ outcome.err = "UnexpectedPacketId"

ParsesI16(f) == parse_i16(f).kind = "Ok"
ParsesU16(f) == parse_u16(f).kind = "Ok"

\* the payload is malformed for the grammar it selects: too few fields, or
\* a numeric field that is there and is no decimal of its type
Malformed ==
    IF starts_with_marker(response)
    THEN LET f == split(response, NUL)
         IN  \/ Len(f) < 6
             \/ ~ParsesI16(f[2]) \/ ~ParsesU16(f[5]) \/ ~ParsesU16(f[6])
    ELSE LET f == split(response, SECTION)
         IN  \/ Len(f) < 3
             \/ ~ParsesU16(f[2]) \/ ~ParsesU16(f[3])

\* C6: a malformed payload makes get_status return a parse error.
C6_ParseFailuresAreErrors ==
    (pc = "done" /\ Attempted("parse") /\ Malformed) =>
        (outcome.kind = "Err" /\ outcome.err = "ParseInt")

\* C7: a payload that starts with "§1" is split on NUL and, when fields 1,
\* 4 and 5 parse, the result is the Status built from fields 1 to 5 alone.
C7_ModernGrammar ==
    LET f == split(response, NUL)
    IN  (/\ pc = "done" /\ Attempted("parse")
         /\ starts_with_marker(response)
         /\ Len(f) >= 6
         /\ ParsesI16(f[2]) /\ ParsesU16(f[5]) /\ ParsesU16(f[6])) =>
            outcome = [kind |-> "Ok",
                       status |-> [dirty |-> TRUE,
                                   version |-> <<[protocol |-> parse_i16(f[2]).val,
                                                  server |-> f[3]]>>,
                                   motd |-> f[4],
                                   online |-> <<parse_u16(f[5]).val,
                                                parse_u16(f[6]).val>>]]

\* a modern payload with a field after index 5 was parsed to a Status
\* whose server and motd differ
C7_Witness ==
    /\ pc = "done" /\ Attempted("parse") /\ starts_with_marker(response)
    /\ Len(split(response, NUL)) > 6
    /\ outcome.kind = "Ok"
    /\ outcome.status.version # <<>>
    /\ outcome.status.version[1].server # outcome.status.motd

\* C8: a payload that does not start with "§1" is split on the section
\* sign and, when fields 1 and 2 parse, the result is the Status with motd
\* field 0 and no version; a Status has no version exactly when the legacy
\* grammar was used.
C8_LegacyGrammar ==
    LET f == split(response, SECTION)
    IN  /\ (/\ pc = "done" /\ Attempted("parse")
            /\ ~starts_with_marker(response)
            /\ Len(f) >= 3
            /\ ParsesU16(f[2]) /\ ParsesU16(f[3])) =>
               outcome = [kind |-> "Ok",
                          status |-> [dirty |-> TRUE,
                                      version |-> <<>>,
                                      motd |-> f[1],
                                      online |-> <<parse_u16(f[2]).val,
                                                   parse_u16(f[3]).val>>]]
        /\ outcome.kind = "Ok" =>
               (outcome.status.version = <<>> <=> ~starts_with_marker(response))

\* a legacy payload with two different player counts was parsed
C8_Witness ==
    /\ pc = "done" /\ Attempted("parse") /\ ~starts_with_marker(response)
    /\ outcome.kind = "Ok"
    /\ outcome.status.version = <<>>
    /\ outcome.status.online[1] # outcome.status.online[2]

IsPrefix(a, b) == Len(a) <= Len(b) /\ a = SubSeq(b, 1, Len(a))

\* C9: the steps run in the fixed order; the call ends at the first step
\* that fails, with an error; a Status comes only after all six steps, and
\* it is dirty.
C9_FailFast ==
    /\ IsPrefix(steps, <<"connect", "set_read_timeout", "write", "read_id",
                         "read_string", "parse">>)
    /\ pc = "done" => outcome.kind \in {"Ok", "Err"}
    /\ pc # "done" => outcome.kind = "None"
    /\ outcome.kind = "Ok" => (Len(steps) = 6 /\ outcome.status.dirty)

\* C10: the bytes on the wire are always a prefix of 0xFE 0x01; they are
\* written by one write, made with the 500 ms timeout set and nothing read
\* yet; once a byte has been read the wire holds exactly the probe; connect
\* and write are attempted at most once.
C10_SingleProbe ==
    /\ [](/\ IsPrefix(wire, <<254, 1>>)
          /\ recv # <<>> => wire = <<254, 1>>
          /\ Cardinality({i \in 1..Len(steps) : steps[i] = "connect"}) <= 1
          /\ Cardinality({i \in 1..Len(steps) : steps[i] = "write"}) <= 1)
    /\ [][wire' # wire =>
            (wire = <<>> /\ timeout = 500 /\ recv = <<>> /\ ~Attempted("write"))]_vars

\* the probe is on the wire and the answer has been read and parsed
C10_Witness ==
    /\ pc = "done" /\ wire = <<254, 1>> /\ Len(recv) > 1 /\ outcome.kind = "Ok"

====
